---- MODULE Spec2Model ----
(***************************************************************************)
(* Model of celesta/score/simpleCases/testSimpleCases.py: the six trigger  *)
(* callbacks, the two module flags and the three test methods, statement   *)
(* by statement, run against a model of the cursor engine they drive       *)
(* (cursor construction, insert/update/delete with pre/post triggers,      *)
(* deleteAll, clear, count on the "future rows" view).                     *)
(***************************************************************************)
EXTENDS Integers, Sequences, FiniteSets

\* ---------------------------------------------------------------- bounds
\* The wall clock may advance by at most this many ticks during the run.
MaxElapsed == 2
\* Rows already present in each table before the run starts.
MaxInitRows == 1

\* One day in clock ticks (minusDays(1) / plusDays(1)): longer than the run.
OneDay == MaxElapsed + 1

\* ---------------------------------------------------------------- values
Null == <<>>
Some(v) == <<v>>
Val(x) == x[1]

GetDateForView == "getDateForViewCursor"
ZeroInsert == "zeroInsertCursor"
Log == "LogCursor"
CursorTypes == {GetDateForView, ZeroInsert, Log}

\* The cursor objects the tests create (their local variable names).
CursorNames == {"tableCursor", "zeroC", "logC"}
TypeOf(c) ==
  CASE c = "tableCursor" -> GetDateForView
    [] c = "zeroC" -> ZeroInsert
    [] c = "logC" -> Log

Tests == {"test_getdate_in_view", "test_zero_insert", "test_triggers_on_sys_cursors"}
FirstLine(t) ==
  CASE t = "test_getdate_in_view" -> 39
    [] t = "test_zero_insert" -> 56
    [] t = "test_triggers_on_sys_cursors" -> 65

Slots == {"PreInsert", "PostInsert", "PreUpdate", "PostUpdate", "PreDelete", "PostDelete"}
Hooks == {"preInsert", "postInsert", "preUpdate", "postUpdate", "preDelete", "postDelete"}

PK(type) == IF type = Log THEN "entryno" ELSE "id"

\* A cursor with every field unset.
Blank(type) ==
  IF type = Log
  THEN [entryno |-> Null, userid |-> Null, sessionid |-> Null, grainid |-> Null,
        tablename |-> Null, action_type |-> Null]
  ELSE [id |-> Null, date |-> Null]

VARIABLES
  now,               \* the wall clock (LocalDateTime.now(), GETDATE())
  tables,            \* cursor type -> set of rows of its table
  nextId,            \* cursor type -> next identity value of its table
  cursors,           \* cursor name -> the cursor's field values
  triggers,          \* cursor type -> slot -> registered callbacks, in order
  isPreDeleteDone,   \* module flag
  isPostDeleteDone,  \* module flag
  lastCount,         \* value of the last viewCursor.count()
  stdout,            \* what the print statements wrote
  pc,                \* the test method being run and its next line
  op,                \* the cursor operation in progress and its phase
  outcome,           \* test -> notrun / running / passed / failed / error
  trace              \* history of engine events

vars == <<now, tables, nextId, cursors, triggers, isPreDeleteDone, isPostDeleteDone,
          lastCount, stdout, pc, op, outcome, trace>>

Idle == [test |-> "idle", line |-> 0]
NoOp == [kind |-> "none", cur |-> "none", phase |-> "none"]

\* ---------------------------------------------------------------- callbacks
\* A callback receives the cursor; it may also write the module flags.
\* Variant: the callback writes the wrong field.
preInsert_wrongField(f) == [f EXCEPT !.cur.grainid = Some("getDateForView")]

preInsert(f) == [f EXCEPT !.cur.tablename = Some("getDateForView")]

postInsert(f) == [f EXCEPT !.cur.sessionid = Some("1")]

\* Variant: the callback assigns nothing.
preUpdate_noAssign(f) == f

preUpdate(f) == [f EXCEPT !.cur.tablename = Some("zeroInsert")]

\* Variant: the callback writes postInsert's value.
postUpdate_one(f) == [f EXCEPT !.cur.sessionid = Some("1")]

postUpdate(f) == [f EXCEPT !.cur.sessionid = Some("2")]

preDelete(f) == [f EXCEPT !.isPreDeleteDone = TRUE, !.cur.tablename = Some("table2")]

\* Variant: without the global statement the flag assigned is a local.
postDelete_noGlobal(f) == [f EXCEPT !.cur.sessionid = Some("2")]

postDelete(f) == [f EXCEPT !.isPostDeleteDone = TRUE, !.cur.sessionid = Some("2")]

CallHook(h, f) ==
  CASE h = "preInsert" -> preInsert(f)
    [] h = "postInsert" -> postInsert(f)
    [] h = "preUpdate" -> preUpdate(f)
    [] h = "postUpdate" -> postUpdate(f)
    [] h = "preDelete" -> preDelete(f)
    [] h = "postDelete" -> postDelete(f)

\* ---------------------------------------------------------------- engine
RECURSIVE RunHooks(_, _)
RunHooks(hs, f) == IF hs = <<>> THEN f ELSE RunHooks(Tail(hs), CallHook(Head(hs), f))

CallEvents(hs) == [i \in 1..Len(hs) |-> <<"call", hs[i]>>]

\* The callbacks an operation of this slot on this cursor dispatches to.
\* Variant: a cursor dispatches only to the callbacks registered before it
\* was constructed (registration per instance).
HandlersFor_perInstance(c, slot) ==
  LET born == {i \in DOMAIN trace : trace[i] = <<"new", c>>}
      IsReg(e) == e[1] = "register" /\ e[2] = TypeOf(c) /\ e[3] = slot
      early == IF born = {} THEN <<>>
               ELSE SelectSeq(SubSeq(trace, 1, (CHOOSE i \in born : \A j \in born : j <= i) - 1), IsReg)
  IN [i \in 1..Len(early) |-> early[i][4]]

HandlersFor(c, slot) == triggers[TypeOf(c)][slot]

Register(type, slot, h) ==
  /\ triggers' = [triggers EXCEPT ![type][slot] = Append(@, h)]
  /\ trace' = Append(trace, <<"register", type, slot, h>>)

SlotOf(when, kind) ==
  CASE when = "Pre" /\ kind = "insert" -> "PreInsert"
    [] when = "Post" /\ kind = "insert" -> "PostInsert"
    [] when = "Pre" /\ kind = "update" -> "PreUpdate"
    [] when = "Post" /\ kind = "update" -> "PostUpdate"
    [] when = "Pre" /\ kind = "delete" -> "PreDelete"
    [] when = "Post" /\ kind = "delete" -> "PostDelete"

\* The row an insert stores: identity and column defaults filled in.
WithDefaults(type, c) ==
  LET c1 == IF c[PK(type)] = Null THEN [c EXCEPT ![PK(type)] = Some(nextId[type])] ELSE c
  IN IF type = ZeroInsert /\ c1.date = Null THEN [c1 EXCEPT !.date = Some(now)] ELSE c1

RowOf(type, key) == {r \in tables[type] : r[PK(type)] = key}

\* The view: rows of getDateForView with date > GETDATE().
ViewRows == {r \in tables[GetDateForView] : r.date # Null /\ Val(r.date) > now}
ViewCount == Cardinality(ViewRows)

Frame(c) == [cur |-> cursors[c], isPreDeleteDone |-> isPreDeleteDone,
             isPostDeleteDone |-> isPostDeleteDone]

\* A test statement calls insert(), update() or delete() on a cursor.
Invoke(kind, c) ==
  /\ op' = [kind |-> kind, cur |-> c, phase |-> "pre"]
  /\ trace' = Append(trace, <<"invoke", kind, c>>)

\* The exception leaves the test method: the test ends in error.
Raise(what) ==
  /\ op' = NoOp
  /\ pc' = Idle
  /\ outcome' = [outcome EXCEPT ![pc.test] = "error"]
  /\ trace' = Append(trace, <<"raise", what>>)

EnginePre ==
  /\ op.phase = "pre"
  /\ LET hs == HandlersFor(op.cur, SlotOf("Pre", op.kind))
         f == RunHooks(hs, Frame(op.cur))
     IN /\ cursors' = [cursors EXCEPT ![op.cur] = f.cur]
        /\ isPreDeleteDone' = f.isPreDeleteDone
        /\ isPostDeleteDone' = f.isPostDeleteDone
        /\ trace' = trace \o CallEvents(hs)
  /\ op' = [op EXCEPT !.phase = "mutate"]
  /\ UNCHANGED <<now, tables, nextId, triggers, lastCount, stdout, pc, outcome>>

EngineMutate ==
  /\ op.phase = "mutate"
  /\ LET type == TypeOf(op.cur)
         c == cursors[op.cur]
         row == WithDefaults(type, c)
     IN CASE op.kind = "insert" ->
               IF RowOf(type, row[PK(type)]) # {}
               THEN /\ Raise("duplicate key")
                    /\ UNCHANGED <<tables, nextId, cursors>>
               ELSE /\ tables' = [tables EXCEPT ![type] = @ \cup {row}]
                    /\ nextId' = [nextId EXCEPT ![type] =
                                    IF c[PK(type)] = Null THEN @ + 1 ELSE @]
                    /\ cursors' = [cursors EXCEPT ![op.cur] = row]
                    /\ op' = [op EXCEPT !.phase = "post"]
                    /\ trace' = Append(trace, <<"mutation", op.kind, op.cur>>)
                    /\ UNCHANGED <<pc, outcome>>
          [] op.kind = "update" ->
               IF RowOf(type, c[PK(type)]) = {}
               THEN /\ Raise("no such record")
                    /\ UNCHANGED <<tables, nextId, cursors>>
               ELSE /\ tables' = [tables EXCEPT ![type] = (@ \ RowOf(type, c[PK(type)])) \cup {c}]
                    /\ op' = [op EXCEPT !.phase = "post"]
                    /\ trace' = Append(trace, <<"mutation", op.kind, op.cur>>)
                    /\ UNCHANGED <<nextId, cursors, pc, outcome>>
          [] op.kind = "delete" ->
               /\ tables' = [tables EXCEPT ![type] = @ \ RowOf(type, c[PK(type)])]
               /\ op' = [op EXCEPT !.phase = "post"]
               /\ trace' = Append(trace, <<"mutation", op.kind, op.cur>>)
               /\ UNCHANGED <<nextId, cursors, pc, outcome>>
  /\ UNCHANGED <<now, triggers, isPreDeleteDone, isPostDeleteDone, lastCount, stdout>>

EnginePost ==
  /\ op.phase = "post"
  /\ LET hs == HandlersFor(op.cur, SlotOf("Post", op.kind))
         f == RunHooks(hs, Frame(op.cur))
     IN /\ cursors' = [cursors EXCEPT ![op.cur] = f.cur]
        /\ isPreDeleteDone' = f.isPreDeleteDone
        /\ isPostDeleteDone' = f.isPostDeleteDone
        /\ trace' = (trace \o CallEvents(hs)) \o << <<"return", op.kind, op.cur>> >>
  /\ op' = NoOp
  /\ UNCHANGED <<now, tables, nextId, triggers, lastCount, stdout, pc, outcome>>

\* The wall clock advances between any two steps.
Tick ==
  /\ now < MaxElapsed
  /\ now' = now + 1
  /\ UNCHANGED <<tables, nextId, cursors, triggers, isPreDeleteDone, isPostDeleteDone,
                 lastCount, stdout, pc, op, outcome, trace>>

\* ---------------------------------------------------------------- harness
db == <<tables, nextId>>
flags == <<isPreDeleteDone, isPostDeleteDone>>

At(t, l) == pc = [test |-> t, line |-> l] /\ op = NoOp
Goto(l) == pc' = [pc EXCEPT !.line = l]
Returned == 0

\* The harness runs each test method once, in any order.
StartTest ==
  \E t \in Tests :
    /\ pc = Idle
    /\ outcome[t] = "notrun"
    /\ pc' = [test |-> t, line |-> FirstLine(t)]
    /\ outcome' = [outcome EXCEPT ![t] = "running"]
    /\ UNCHANGED <<now, db, cursors, triggers, flags, lastCount, stdout, op, trace>>

EndTest ==
  /\ pc.test \in Tests
  /\ pc.line = Returned
  /\ op = NoOp
  /\ pc' = Idle
  /\ outcome' = [outcome EXCEPT ![pc.test] = "passed"]
  /\ UNCHANGED <<now, db, cursors, triggers, flags, lastCount, stdout, op, trace>>

\* assertEqual / assertTrue / assertFalse: a failed assertion ends the test.
Check(cond, l) ==
  IF cond
  THEN Goto(l) /\ UNCHANGED outcome
  ELSE pc' = Idle /\ outcome' = [outcome EXCEPT ![pc.test] = "failed"]

\* Cursor(context)
New(c) ==
  /\ cursors' = [cursors EXCEPT ![c] = Blank(TypeOf(c))]
  /\ trace' = Append(trace, <<"new", c>>)

\* cursor.deleteAll(): removes every row, without triggers.
DeleteAll(c) == tables' = [tables EXCEPT ![TypeOf(c)] = {}]

\* cursor.clear()
Clear(c) == cursors' = [cursors EXCEPT ![c] = Blank(TypeOf(c))]

\* cursor.<field> = v
Assign(c, field, v) == cursors' = [cursors EXCEPT ![c][field] = v]

\* ---------------------------------------------------------------- test_getdate_in_view
GD == "test_getdate_in_view"

getdate_L39 ==
  /\ At(GD, 39) /\ New("tableCursor") /\ Goto(40)
  /\ UNCHANGED <<now, db, triggers, flags, lastCount, stdout, op, outcome>>

getdate_L40 ==
  /\ At(GD, 40) /\ DeleteAll("tableCursor") /\ Goto(42)
  /\ UNCHANGED <<now, nextId, cursors, triggers, flags, lastCount, stdout, op, outcome, trace>>

getdate_L42 ==
  /\ At(GD, 42) /\ Goto(43)
  /\ UNCHANGED <<now, db, cursors, triggers, flags, lastCount, stdout, op, outcome, trace>>

getdate_L43 ==
  /\ At(GD, 43) /\ lastCount' = ViewCount /\ Check(0 = ViewCount, 45)
  /\ UNCHANGED <<now, db, cursors, triggers, flags, stdout, op, trace>>

\* Variant: plusDays in place of minusDays.
getdate_L45_plusDays ==
  /\ At(GD, 45) /\ Assign("tableCursor", "date", Some(now + OneDay)) /\ Goto(46)
  /\ UNCHANGED <<now, db, triggers, flags, lastCount, stdout, op, outcome, trace>>

getdate_L45 ==
  /\ At(GD, 45) /\ Assign("tableCursor", "date", Some(now - OneDay)) /\ Goto(46)
  /\ UNCHANGED <<now, db, triggers, flags, lastCount, stdout, op, outcome, trace>>

getdate_L46 ==
  /\ At(GD, 46) /\ Invoke("insert", "tableCursor") /\ Goto(47)
  /\ UNCHANGED <<now, db, cursors, triggers, flags, lastCount, stdout, outcome>>

getdate_L47 ==
  /\ At(GD, 47) /\ lastCount' = ViewCount /\ Check(0 = ViewCount, 49)
  /\ UNCHANGED <<now, db, cursors, triggers, flags, stdout, op, trace>>

getdate_L49 ==
  /\ At(GD, 49) /\ Clear("tableCursor") /\ Goto(50)
  /\ UNCHANGED <<now, db, triggers, flags, lastCount, stdout, op, outcome, trace>>

getdate_L50 ==
  /\ At(GD, 50) /\ Assign("tableCursor", "date", Some(now + OneDay)) /\ Goto(51)
  /\ UNCHANGED <<now, db, triggers, flags, lastCount, stdout, op, outcome, trace>>

getdate_L51 ==
  /\ At(GD, 51) /\ Invoke("insert", "tableCursor") /\ Goto(52)
  /\ UNCHANGED <<now, db, cursors, triggers, flags, lastCount, stdout, outcome>>

getdate_L52 ==
  /\ At(GD, 52) /\ lastCount' = ViewCount /\ Check(1 = ViewCount, Returned)
  /\ UNCHANGED <<now, db, cursors, triggers, flags, stdout, op, trace>>

\* ---------------------------------------------------------------- test_zero_insert
ZI == "test_zero_insert"

zero_L56 ==
  /\ At(ZI, 56) /\ New("zeroC") /\ Goto(57)
  /\ UNCHANGED <<now, db, triggers, flags, lastCount, stdout, op, outcome>>

zero_L57 ==
  /\ At(ZI, 57) /\ DeleteAll("zeroC") /\ Goto(59)
  /\ UNCHANGED <<now, nextId, cursors, triggers, flags, lastCount, stdout, op, outcome, trace>>

\* Variant: update() in place of insert().
zero_L59_update ==
  /\ At(ZI, 59) /\ Invoke("update", "zeroC") /\ Goto(60)
  /\ UNCHANGED <<now, db, cursors, triggers, flags, lastCount, stdout, outcome>>

zero_L59 ==
  /\ At(ZI, 59) /\ Invoke("insert", "zeroC") /\ Goto(60)
  /\ UNCHANGED <<now, db, cursors, triggers, flags, lastCount, stdout, outcome>>

zero_L60 ==
  /\ At(ZI, 60) /\ stdout' = Append(stdout, cursors["zeroC"].id) /\ Goto(61)
  /\ UNCHANGED <<now, db, cursors, triggers, flags, lastCount, op, outcome, trace>>

zero_L61 ==
  /\ At(ZI, 61) /\ stdout' = Append(stdout, cursors["zeroC"].date) /\ Goto(Returned)
  /\ UNCHANGED <<now, db, cursors, triggers, flags, lastCount, op, outcome, trace>>

\* ---------------------------------------------------------------- test_triggers_on_sys_cursors
TR == "test_triggers_on_sys_cursors"

trig_L65 ==
  /\ At(TR, 65) /\ New("logC") /\ Goto(67)
  /\ UNCHANGED <<now, db, triggers, flags, lastCount, stdout, op, outcome>>

\* Variant: the registration is made twice.
trig_L67_twice ==
  /\ At(TR, 67)
  /\ triggers' = [triggers EXCEPT ![Log]["PreInsert"] = @ \o <<"preInsert", "preInsert">>]
  /\ trace' = trace \o << <<"register", Log, "PreInsert", "preInsert">>,
                          <<"register", Log, "PreInsert", "preInsert">> >>
  /\ Goto(68)
  /\ UNCHANGED <<now, db, cursors, flags, lastCount, stdout, op, outcome>>

trig_L67 ==
  /\ At(TR, 67) /\ Register(Log, "PreInsert", "preInsert") /\ Goto(68)
  /\ UNCHANGED <<now, db, cursors, flags, lastCount, stdout, op, outcome>>

\* Variant: postInsert registered through onPreInsert.
trig_L68_onPre ==
  /\ At(TR, 68) /\ Register(Log, "PreInsert", "postInsert") /\ Goto(69)
  /\ UNCHANGED <<now, db, cursors, flags, lastCount, stdout, op, outcome>>

trig_L68 ==
  /\ At(TR, 68) /\ Register(Log, "PostInsert", "postInsert") /\ Goto(69)
  /\ UNCHANGED <<now, db, cursors, flags, lastCount, stdout, op, outcome>>

\* Variant: preUpdate registered through onPreInsert.
trig_L69_onPreInsert ==
  /\ At(TR, 69) /\ Register(Log, "PreInsert", "preUpdate") /\ Goto(70)
  /\ UNCHANGED <<now, db, cursors, flags, lastCount, stdout, op, outcome>>

trig_L69 ==
  /\ At(TR, 69) /\ Register(Log, "PreUpdate", "preUpdate") /\ Goto(70)
  /\ UNCHANGED <<now, db, cursors, flags, lastCount, stdout, op, outcome>>

trig_L70 ==
  /\ At(TR, 70) /\ Register(Log, "PostUpdate", "postUpdate") /\ Goto(71)
  /\ UNCHANGED <<now, db, cursors, flags, lastCount, stdout, op, outcome>>

trig_L71 ==
  /\ At(TR, 71) /\ Register(Log, "PreDelete", "preDelete") /\ Goto(72)
  /\ UNCHANGED <<now, db, cursors, flags, lastCount, stdout, op, outcome>>

trig_L72 ==
  /\ At(TR, 72) /\ Register(Log, "PostDelete", "postDelete") /\ Goto(74)
  /\ UNCHANGED <<now, db, cursors, flags, lastCount, stdout, op, outcome>>

trig_L74 ==
  /\ At(TR, 74) /\ Assign("logC", "userid", Some("1")) /\ Goto(75)
  /\ UNCHANGED <<now, db, triggers, flags, lastCount, stdout, op, outcome, trace>>

trig_L75 ==
  /\ At(TR, 75) /\ Assign("logC", "sessionid", Some("0")) /\ Goto(76)
  /\ UNCHANGED <<now, db, triggers, flags, lastCount, stdout, op, outcome, trace>>

trig_L76 ==
  /\ At(TR, 76) /\ Assign("logC", "grainid", Some("simpleCases")) /\ Goto(77)
  /\ UNCHANGED <<now, db, triggers, flags, lastCount, stdout, op, outcome, trace>>

trig_L77 ==
  /\ At(TR, 77) /\ Assign("logC", "tablename", Some("zeroInsert")) /\ Goto(78)
  /\ UNCHANGED <<now, db, triggers, flags, lastCount, stdout, op, outcome, trace>>

trig_L78 ==
  /\ At(TR, 78) /\ Assign("logC", "action_type", Some("I")) /\ Goto(79)
  /\ UNCHANGED <<now, db, triggers, flags, lastCount, stdout, op, outcome, trace>>

trig_L79 ==
  /\ At(TR, 79) /\ Invoke("insert", "logC") /\ Goto(81)
  /\ UNCHANGED <<now, db, cursors, triggers, flags, lastCount, stdout, outcome>>

trig_L81 ==
  /\ At(TR, 81) /\ Check(Some("getDateForView") = cursors["logC"].tablename, 82)
  /\ UNCHANGED <<now, db, cursors, triggers, flags, lastCount, stdout, op, trace>>

trig_L82 ==
  /\ At(TR, 82) /\ Check(Some("1") = cursors["logC"].sessionid, 84)
  /\ UNCHANGED <<now, db, cursors, triggers, flags, lastCount, stdout, op, trace>>

trig_L84 ==
  /\ At(TR, 84) /\ Invoke("update", "logC") /\ Goto(86)
  /\ UNCHANGED <<now, db, cursors, triggers, flags, lastCount, stdout, outcome>>

trig_L86 ==
  /\ At(TR, 86) /\ Check(Some("zeroInsert") = cursors["logC"].tablename, 87)
  /\ UNCHANGED <<now, db, cursors, triggers, flags, lastCount, stdout, op, trace>>

trig_L87 ==
  /\ At(TR, 87) /\ Check(Some("2") = cursors["logC"].sessionid, 89)
  /\ UNCHANGED <<now, db, cursors, triggers, flags, lastCount, stdout, op, trace>>

trig_L89 ==
  /\ At(TR, 89) /\ Check(~isPreDeleteDone, 90)
  /\ UNCHANGED <<now, db, cursors, triggers, flags, lastCount, stdout, op, trace>>

trig_L90 ==
  /\ At(TR, 90) /\ Check(~isPostDeleteDone, 92)
  /\ UNCHANGED <<now, db, cursors, triggers, flags, lastCount, stdout, op, trace>>

trig_L92 ==
  /\ At(TR, 92) /\ Invoke("delete", "logC") /\ Goto(94)
  /\ UNCHANGED <<now, db, cursors, triggers, flags, lastCount, stdout, outcome>>

trig_L94 ==
  /\ At(TR, 94) /\ Check(isPreDeleteDone, 95)
  /\ UNCHANGED <<now, db, cursors, triggers, flags, lastCount, stdout, op, trace>>

trig_L95 ==
  /\ At(TR, 95) /\ Check(isPostDeleteDone, Returned)
  /\ UNCHANGED <<now, db, cursors, triggers, flags, lastCount, stdout, op, trace>>

\* ---------------------------------------------------------------- specification
\* Dates of the rows left in the tables by earlier runs.
InitDates == {-1, 1}

InitRows(type, n, dates) ==
  IF type = Log
  THEN {[entryno |-> Some(i), userid |-> Some("0"), sessionid |-> Some("0"),
         grainid |-> Some("celesta"), tablename |-> Some("grains"),
         action_type |-> Some("I")] : i \in 1..n}
  ELSE {[id |-> Some(i), date |-> Some(dates[i])] : i \in 1..n}

Init ==
  /\ now = 0
  /\ \E n \in [CursorTypes -> 0..MaxInitRows] :
       /\ nextId = [t \in CursorTypes |-> n[t] + 1]
       /\ \E d \in [CursorTypes -> [1..MaxInitRows -> InitDates]] :
            /\ \A t \in CursorTypes : \A i \in 1..MaxInitRows :
                 (i > n[t] \/ t # GetDateForView) => d[t][i] = -1
            /\ tables = [t \in CursorTypes |-> InitRows(t, n[t], d[t])]
  /\ cursors = [c \in CursorNames |-> Blank(TypeOf(c))]
  /\ triggers = [t \in CursorTypes |-> [s \in Slots |-> <<>>]]
  /\ isPreDeleteDone = FALSE
  /\ isPostDeleteDone = FALSE
  /\ lastCount = -1
  /\ stdout = <<>>
  /\ pc = Idle
  /\ op = NoOp
  /\ outcome = [t \in Tests |-> "notrun"]
  /\ trace = <<>>

Next ==
  \/ Tick
  \/ StartTest
  \/ EndTest
  \/ EnginePre
  \/ EngineMutate
  \/ EnginePost
  \/ getdate_L39 \/ getdate_L40 \/ getdate_L42 \/ getdate_L43 \/ getdate_L45
  \/ getdate_L46 \/ getdate_L47 \/ getdate_L49 \/ getdate_L50 \/ getdate_L51
  \/ getdate_L52
  \/ zero_L56 \/ zero_L57 \/ zero_L59 \/ zero_L60 \/ zero_L61
  \/ trig_L65 \/ trig_L67 \/ trig_L68 \/ trig_L69 \/ trig_L70 \/ trig_L71
  \/ trig_L72 \/ trig_L74 \/ trig_L75 \/ trig_L76 \/ trig_L77 \/ trig_L78
  \/ trig_L79 \/ trig_L81 \/ trig_L82 \/ trig_L84 \/ trig_L86 \/ trig_L87
  \/ trig_L89 \/ trig_L90 \/ trig_L92 \/ trig_L94 \/ trig_L95

Spec == Init /\ [][Next]_vars

\* ---------------------------------------------------------------- properties
Idx(e) == {i \in DOMAIN trace : trace[i] = e}
Count(e) == Cardinality(Idx(e))
Calls(h) == Count(<<"call", h>>)
Invoked(k) == Count(<<"invoke", k, "logC">>)
Mutated(k) == Count(<<"mutation", k, "logC">>)
ReturnedFrom(k) == Count(<<"return", k, "logC">>)
Kinds == {"insert", "update", "delete"}
PreOf(k) == CASE k = "insert" -> "preInsert" [] k = "update" -> "preUpdate" [] k = "delete" -> "preDelete"
PostOf(k) == CASE k = "insert" -> "postInsert" [] k = "update" -> "postUpdate" [] k = "delete" -> "postDelete"
SlotOfHook(h) ==
  CASE h = "preInsert" -> "PreInsert" [] h = "postInsert" -> "PostInsert"
    [] h = "preUpdate" -> "PreUpdate" [] h = "postUpdate" -> "PostUpdate"
    [] h = "preDelete" -> "PreDelete" [] h = "postDelete" -> "PostDelete"
LogC == cursors["logC"]
GDRows == tables[GetDateForView]

\* No test method ends in a failed assertion or an exception.
AllTestsPass == \A t \in Tests : outcome[t] \notin {"failed", "error"}

\* C1: viewWithGetDateCursor.count() is the number of getDateForView rows dated
\* strictly after the current time: 0 on the emptied table, still 0 once a row
\* dated one day in the past is inserted, 1 once a row dated one day in the
\* future is inserted as well.
C1_ViewCountsFutureRows ==
  /\ outcome[GD] \notin {"failed", "error"}
  /\ At(GD, 45) => lastCount = 0 /\ GDRows = {}
  /\ At(GD, 49) => /\ lastCount = 0
                   /\ Cardinality(GDRows) = 1
                   /\ \A r \in GDRows : Val(r.date) < now
  /\ At(GD, Returned) => /\ lastCount = 1
                         /\ Cardinality(GDRows) = 2
                         /\ Cardinality({r \in GDRows : Val(r.date) > now}) = 1
  /\ (pc.test = GD /\ pc.line \in {45, 49, Returned} /\ op = NoOp) =>
       lastCount = Cardinality({r \in GDRows : r.date # Null /\ Val(r.date) > now})

C1_Witness ==
  /\ At(GD, Returned) /\ lastCount = 1 /\ now > 0
  /\ \E r \in GDRows : Val(r.date) < now
  /\ \E r \in GDRows : Val(r.date) > now

\* C2: insert() called on the LogCursor with tablename "zeroInsert" and
\* sessionid "0" returns with tablename "getDateForView" and sessionid "1".
C2_InsertHooksVisible ==
  /\ At(TR, 79) => LogC.tablename = Some("zeroInsert") /\ LogC.sessionid = Some("0")
  /\ At(TR, 81) => LogC.tablename = Some("getDateForView") /\ LogC.sessionid = Some("1")

C2_Witness ==
  /\ At(TR, 81) /\ ReturnedFrom("insert") = 1
  /\ LogC.tablename = Some("getDateForView") /\ LogC.sessionid = Some("1")

\* C3: update() called on the cursor left by the hooked insert (tablename
\* "getDateForView", sessionid "1") returns with tablename "zeroInsert" and
\* sessionid "2".
C3_UpdateHooksVisible ==
  /\ At(TR, 84) => LogC.tablename = Some("getDateForView") /\ LogC.sessionid = Some("1")
  /\ At(TR, 86) => LogC.tablename = Some("zeroInsert") /\ LogC.sessionid = Some("2")

C3_Witness ==
  /\ At(TR, 86) /\ ReturnedFrom("update") = 1
  /\ LogC.tablename = Some("zeroInsert") /\ LogC.sessionid = Some("2")

\* C4: isPreDeleteDone and isPostDeleteDone are both false in every state
\* before the first delete() call on a LogCursor and both true when that
\* delete() returns.
C4_DeleteFlags ==
  /\ Invoked("delete") = 0 => ~isPreDeleteDone /\ ~isPostDeleteDone
  /\ (ReturnedFrom("delete") > 0 /\ op = NoOp) => isPreDeleteDone /\ isPostDeleteDone

C4_Witness ==
  /\ At(TR, 94) /\ ReturnedFrom("delete") = 1
  /\ isPreDeleteDone /\ isPostDeleteDone

\* C5: in the sequence insert(), update(), delete() on one LogCursor each of
\* the six callbacks is invoked exactly once: never twice, and once its
\* operation has returned, not zero times.
C5_EachHookOnce ==
  /\ \A h \in Hooks : Calls(h) <= 1
  /\ \A k \in Kinds : ReturnedFrom(k) = 1 => Calls(PreOf(k)) = 1 /\ Calls(PostOf(k)) = 1
  /\ \A k \in Kinds : Invoked(k) <= 1

C5_Witness ==
  /\ At(TR, 94)
  /\ \A k \in Kinds : ReturnedFrom(k) = 1
  /\ \A h \in Hooks : Calls(h) = 1

\* C6: for insert(), update() and delete() the pre-hook runs before the
\* mutation, the post-hook after it, and both have run when the operation
\* returns to the caller.
C6_HooksAroundMutation ==
  \A k \in Kinds :
    LET inv == Idx(<<"invoke", k, "logC">>)
        pre == Idx(<<"call", PreOf(k)>>)
        mut == Idx(<<"mutation", k, "logC">>)
        post == Idx(<<"call", PostOf(k)>>)
        ret == Idx(<<"return", k, "logC">>)
    IN /\ \A i \in pre : (\E a \in inv : a < i) /\ (\A m \in mut : i < m)
       /\ \A m \in mut : (\E i \in pre : i < m) /\ (\A j \in post : m < j)
       /\ \A j \in post : (\E m \in mut : m < j) /\ (\A r \in ret : j < r)
       /\ \A r \in ret : \E j \in post : j < r
       /\ (inv # {} /\ op = NoOp) => Cardinality(ret) = Cardinality(inv)

C6_Witness ==
  /\ At(TR, 94)
  /\ \A k \in Kinds :
       \E i \in Idx(<<"call", PreOf(k)>>) : \E m \in Idx(<<"mutation", k, "logC">>) :
         \E j \in Idx(<<"call", PostOf(k)>>) : \E r \in Idx(<<"return", k, "logC">>) :
           i < m /\ m < j /\ j < r

\* C7: insert() on a zeroInsertCursor with no field assigned, on the emptied
\* table, completes without error and leaves the cursor's id and date set to
\* engine-supplied values, which the two print statements then read.
C7_ZeroInsertDefaults ==
  /\ outcome[ZI] \notin {"failed", "error"}
  /\ At(ZI, 59) => cursors["zeroC"] = Blank(ZeroInsert) /\ tables[ZeroInsert] = {}
  /\ (pc.test = ZI /\ pc.line \in {60, 61, Returned} /\ op = NoOp) =>
       /\ cursors["zeroC"].id # Null
       /\ cursors["zeroC"].date # Null
       /\ Val(cursors["zeroC"].date) <= now
       /\ tables[ZeroInsert] = {cursors["zeroC"]}
  /\ At(ZI, Returned) =>
       stdout = <<cursors["zeroC"].id, cursors["zeroC"].date>>

C7_Witness ==
  /\ At(ZI, Returned)
  /\ Len(stdout) = 2 /\ stdout[1] # Null /\ stdout[2] # Null
  /\ tables[ZeroInsert] = {cursors["zeroC"]}

\* C8: the tablename written by the pre-hook is the value the operation
\* works on: the row insert() stores carries "getDateForView", not the
\* caller's "zeroInsert", and the row update() stores carries "zeroInsert".
C8_PreHookValueTakesEffect ==
  /\ (Mutated("insert") = 1 /\ Mutated("update") = 0) =>
       \E r \in tables[Log] : /\ r.entryno = LogC.entryno
                              /\ r.tablename = Some("getDateForView")
  /\ (Mutated("update") = 1 /\ Mutated("delete") = 0) =>
       \E r \in tables[Log] : /\ r.entryno = LogC.entryno
                              /\ r.tablename = Some("zeroInsert")

C8_Witness ==
  /\ At(TR, 86) /\ Mutated("insert") = 1 /\ Mutated("update") = 1
  /\ \E r \in tables[Log] : r.entryno = LogC.entryno /\ r.tablename = Some("zeroInsert")

\* C9: an operation fires only the hooks of its own kind: insert() and
\* update() leave the delete flags false, no callback of a kind runs unless
\* an operation of that kind was called, update() does not run the insert
\* callbacks again, and sessionid is "1" after insert().
C9_OnlyOwnKind ==
  /\ \A k \in Kinds : Invoked(k) = 0 => Calls(PreOf(k)) = 0 /\ Calls(PostOf(k)) = 0
  /\ (pc.test = TR /\ pc.line \in {81, 82, 84, 86, 87, 89, 90, 92} /\ op = NoOp) =>
       ~isPreDeleteDone /\ ~isPostDeleteDone
  /\ At(TR, 81) => LogC.sessionid = Some("1") /\ LogC.sessionid # Some("2")
  /\ At(TR, 86) => Calls("preInsert") = 1 /\ Calls("postInsert") = 1

C9_Witness ==
  /\ At(TR, 86) /\ ~isPreDeleteDone /\ ~isPostDeleteDone
  /\ Calls("preInsert") = 1 /\ Calls("preUpdate") = 1 /\ Calls("preDelete") = 0

\* C10: a callback registered on LogCursor after a LogCursor instance was
\* constructed fires for every later matching operation on that instance.
C10_RegistrationPerType ==
  \A k \in Kinds : \A h \in {PreOf(k), PostOf(k)} :
    \A g \in Idx(<<"register", Log, SlotOfHook(h), h>>) :
      \A a \in Idx(<<"invoke", k, "logC">>) : \A r \in Idx(<<"return", k, "logC">>) :
        ((\E n \in Idx(<<"new", "logC">>) : n < g) /\ g < a /\ a < r)
        => \E c \in Idx(<<"call", h>>) : a < c /\ c < r

C10_Witness ==
  /\ At(TR, 94)
  /\ \A h \in Hooks :
       \E n \in Idx(<<"new", "logC">>) : \E g \in Idx(<<"register", Log, SlotOfHook(h), h>>) :
         \E c \in Idx(<<"call", h>>) : n < g /\ g < c

====
